---- MODULE Spec2Model ----
(***************************************************************************)
(* Model of the GTFS database layer (src/db/mod.rs): construction of the   *)
(* service calendar index (fetch_services, GTFSDatabase::new) and the      *)
(* queries fetch_stations, fetch_stops and fetch_trip.                     *)
(*                                                                         *)
(* Text columns are sequences of one-character strings, so that the        *)
(* conversions str_to_date and str_to_dur are real parsers.  Dates are     *)
(* day numbers counted from 0001-01-01 = 1 (chrono's num_days_from_ce),    *)
(* durations are seconds, and a NaiveDateTime is a record [date, secs].    *)
(***************************************************************************)
EXTENDS Integers, Sequences, FiniteSets, TLC

VARIABLES
    calendar,   \* the service and service_exception tables of the data store
    stop_time,  \* the stop-event rows of the data store, joined with trip and stop
    phase,      \* "start" | "ready" | "failed" | "panicked"
    services,   \* GTFSDatabase.services: service_id -> Service
    last        \* the last call made and what it returned

vars == <<calendar, stop_time, phase, services, last>>

-----------------------------------------------------------------------------
(* Bounds of the model *)

MaxStopRows == 2        \* stop-event rows in the data store
MaxExceptions == 2      \* rows of the service_exception table
MaxServices == 2        \* rows of the service table

SECS_PER_DAY == 24 * 60 * 60

-----------------------------------------------------------------------------
(* Text and SQL values *)

Digit == {"0", "1", "2", "3", "4", "5", "6", "7", "8", "9"}

DigitVal(c) ==
    CASE c = "0" -> 0 [] c = "1" -> 1 [] c = "2" -> 2 [] c = "3" -> 3
      [] c = "4" -> 4 [] c = "5" -> 5 [] c = "6" -> 6 [] c = "7" -> 7
      [] c = "8" -> 8 [] c = "9" -> 9

RECURSIVE Number(_)
Number(s) ==
    IF s = <<>> THEN 0
    ELSE 10 * Number(SubSeq(s, 1, Len(s) - 1)) + DigitVal(s[Len(s)])

AllDigits(s) == \A i \in 1..Len(s) : s[i] \in Digit

SqlNull == [null |-> TRUE, text |-> <<>>]
SqlText(s) == [null |-> FALSE, text |-> s]

-----------------------------------------------------------------------------
(* util::str_to_date: a date string of the form YYYYMMDD *)

IsLeap(y) == (y % 4 = 0 /\ y % 100 # 0) \/ y % 400 = 0

DaysInMonth(y, m) ==
    CASE m \in {1, 3, 5, 7, 8, 10, 12} -> 31
      [] m \in {4, 6, 9, 11} -> 30
      [] m = 2 -> IF IsLeap(y) THEN 29 ELSE 28

RECURSIVE DaysBeforeMonth(_, _)
DaysBeforeMonth(y, m) ==
    IF m = 1 THEN 0 ELSE DaysBeforeMonth(y, m - 1) + DaysInMonth(y, m - 1)

NumDaysFromCE(y, m, d) ==
    365 * (y - 1) + ((y - 1) \div 4) - ((y - 1) \div 100) + ((y - 1) \div 400)
      + DaysBeforeMonth(y, m) + d

\* 0 = Monday .. 6 = Sunday; 0001-01-01 (day 1) is a Monday
weekday(date) == (date - 1) % 7

str_to_date(s) ==
    IF Len(s) = 8 /\ AllDigits(s)
    THEN LET y == Number(SubSeq(s, 1, 4))
             m == Number(SubSeq(s, 5, 6))
             d == Number(SubSeq(s, 7, 8))
         IN IF y >= 1 /\ m \in 1..12 /\ d >= 1 /\ d <= DaysInMonth(y, m)
            THEN [ok |-> TRUE, val |-> NumDaysFromCE(y, m, d)]
            ELSE [ok |-> FALSE, err |-> s]
    ELSE [ok |-> FALSE, err |-> s]

-----------------------------------------------------------------------------
(* types: Weekday, ServiceException, Service *)

from_rows(mon, tue, wed, thu, fri, sat, sun) ==
    <<mon, tue, wed, thu, fri, sat, sun>>

ExceptionTypeFromSql(n) == IF n = 1 THEN "Added" ELSE "Removed"

ServiceNew(start_date, end_date, operating_weekdays) ==
    [start_date |-> start_date, end_date |-> end_date,
     operating_weekdays |-> operating_weekdays, exceptions |-> <<>>]

\* Service::is_available: an exception on the date decides (the last one of
\* the sequence when the date occurs more than once), else the weekly rule
RECURSIVE ScanExceptions(_, _, _)
ScanExceptions(exceptions, date, found) ==
    IF exceptions = <<>> THEN found
    ELSE ScanExceptions(Tail(exceptions), date,
            IF Head(exceptions).exception_date = date
            THEN Head(exceptions).exception_type
            ELSE found)

\* variant: exceptions clipped by the validity window
is_available_Clipped(s, date) ==
    LET found == ScanExceptions(s.exceptions, date, "None")
    IN /\ s.start_date <= date
       /\ date <= s.end_date
       /\ IF found # "None" THEN found = "Added"
          ELSE s.operating_weekdays[weekday(date) + 1]

is_available(s, date) ==
    LET found == ScanExceptions(s.exceptions, date, "None")
    IN IF found # "None" THEN found = "Added"
       ELSE /\ s.start_date <= date
            /\ date <= s.end_date
            /\ s.operating_weekdays[weekday(date) + 1]

-----------------------------------------------------------------------------
(* SERVICE_QUERY: service LEFT JOIN service_exception ON service_id *)

ExceptionsOf(exc_table, service_id) ==
    SelectSeq(exc_table, LAMBDA e : e.service_id = service_id)

JoinRow(s, date, type) ==
    [service_id |-> s.service_id, flags |-> s.flags,
     start_date |-> s.start_date, end_date |-> s.end_date,
     service_date |-> date, exception_type |-> type]

RECURSIVE JoinOne(_, _)
JoinOne(s, excs) ==
    IF excs = <<>> THEN <<>>
    ELSE <<JoinRow(s, SqlText(Head(excs).service_date), Head(excs).exception_type)>>
            \o JoinOne(s, Tail(excs))

RECURSIVE ServiceQuery(_, _)
ServiceQuery(service_table, exc_table) ==
    IF service_table = <<>> THEN <<>>
    ELSE LET s == Head(service_table)
             excs == ExceptionsOf(exc_table, s.service_id)
         IN (IF excs = <<>> THEN <<JoinRow(s, SqlNull, 0)>> ELSE JoinOne(s, excs))
              \o ServiceQuery(Tail(service_table), exc_table)

-----------------------------------------------------------------------------
(* fetch_services *)

NoServices == [k \in {} |-> 0]

Put(map, k, v) == [x \in (DOMAIN map) \cup {k} |-> IF x = k THEN v ELSE map[x]]

NewService(row, start, end) ==
    ServiceNew(start, end,
               from_rows(row.flags[1], row.flags[2], row.flags[3], row.flags[4],
                         row.flags[5], row.flags[6], row.flags[7]))

Exception(row, date) ==
    [exception_date |-> date,
     exception_type |-> ExceptionTypeFromSql(row.exception_type)]

\* variant: an exception date that does not parse is taken as no exception
MapRow_SkipBadException(row, map) ==
    LET service_id == row.service_id
        excDate == str_to_date(row.service_date.text)
        hasExc == ~row.service_date.null /\ excDate.ok
        start == str_to_date(row.start_date)
        end == str_to_date(row.end_date)
        isNew == service_id \notin DOMAIN map
    IN IF isNew /\ ~start.ok THEN [ok |-> FALSE, err |-> start.err]
       ELSE IF isNew /\ ~end.ok THEN [ok |-> FALSE, err |-> end.err]
       ELSE
         LET map1 == IF isNew
                     THEN Put(map, service_id, NewService(row, start.val, end.val))
                     ELSE map
         IN [ok |-> TRUE,
             map |-> IF hasExc
                     THEN [map1 EXCEPT ![service_id].exceptions =
                              Append(@, Exception(row, excDate.val))]
                     ELSE map1]

\* variant: a later exception replaces the earlier ones of the same date
MapRow_ReplaceSameDate(row, map) ==
    LET service_id == row.service_id
        hasExc == ~row.service_date.null
        excDate == str_to_date(row.service_date.text)
        start == str_to_date(row.start_date)
        end == str_to_date(row.end_date)
        isNew == service_id \notin DOMAIN map
    IN IF hasExc /\ ~excDate.ok THEN [ok |-> FALSE, err |-> excDate.err]
       ELSE IF isNew /\ ~start.ok THEN [ok |-> FALSE, err |-> start.err]
       ELSE IF isNew /\ ~end.ok THEN [ok |-> FALSE, err |-> end.err]
       ELSE
         LET map1 == IF isNew
                     THEN Put(map, service_id, NewService(row, start.val, end.val))
                     ELSE map
         IN [ok |-> TRUE,
             map |-> IF hasExc
                     THEN [map1 EXCEPT ![service_id].exceptions =
                              Append(SelectSeq(@, LAMBDA e : e.exception_date # excDate.val),
                                     Exception(row, excDate.val))]
                     ELSE map1]

\* one iteration of the row loop
MapRow(row, map) ==
    LET service_id == row.service_id
        hasExc == ~row.service_date.null
        excDate == str_to_date(row.service_date.text)
        start == str_to_date(row.start_date)
        end == str_to_date(row.end_date)
        isNew == service_id \notin DOMAIN map
    IN IF hasExc /\ ~excDate.ok THEN [ok |-> FALSE, err |-> excDate.err]
       ELSE IF isNew /\ ~start.ok THEN [ok |-> FALSE, err |-> start.err]
       ELSE IF isNew /\ ~end.ok THEN [ok |-> FALSE, err |-> end.err]
       ELSE
         LET map1 == IF isNew
                     THEN Put(map, service_id, NewService(row, start.val, end.val))
                     ELSE map
         IN [ok |-> TRUE,
             map |-> IF hasExc
                     THEN [map1 EXCEPT ![service_id].exceptions =
                              Append(@, Exception(row, excDate.val))]
                     ELSE map1]

RECURSIVE MapRows(_, _)
MapRows(rows, map) ==
    IF rows = <<>> THEN [ok |-> TRUE, map |-> map]
    ELSE LET r == MapRow(Head(rows), map)
         IN IF r.ok THEN MapRows(Tail(rows), r.map) ELSE r

fetch_services(rows) == MapRows(rows, NoServices)

-----------------------------------------------------------------------------
(* util::str_to_dur with GTFSDatabase.time_regex:                          *)
(*   (?P<hours>\d{1,2}):(?P<minutes>\d{2}):(?P<seconds>\d{2})  (unanchored) *)

At(s, i) == IF i >= 1 /\ i <= Len(s) THEN s[i] ELSE "$"

\* the regex matches at position i with an hours group of hl digits
MatchesAt(s, i, hl) ==
    /\ \A k \in 0..(hl - 1) : At(s, i + k) \in Digit
    /\ At(s, i + hl) = ":"
    /\ At(s, i + hl + 1) \in Digit /\ At(s, i + hl + 2) \in Digit
    /\ At(s, i + hl + 3) = ":"
    /\ At(s, i + hl + 4) \in Digit /\ At(s, i + hl + 5) \in Digit

Captures(s, i, hl) ==
    [hours |-> Number(SubSeq(s, i, i + hl - 1)),
     minutes |-> Number(SubSeq(s, i + hl + 1, i + hl + 2)),
     seconds |-> Number(SubSeq(s, i + hl + 4, i + hl + 5))]

\* leftmost match, the hours group greedy
RECURSIVE time_regex(_, _)
time_regex(s, i) ==
    IF i > Len(s) THEN [ok |-> FALSE]
    ELSE IF MatchesAt(s, i, 2) THEN [ok |-> TRUE, caps |-> Captures(s, i, 2)]
    ELSE IF MatchesAt(s, i, 1) THEN [ok |-> TRUE, caps |-> Captures(s, i, 1)]
    ELSE time_regex(s, i + 1)

str_to_dur(s) ==
    LET m == time_regex(s, 1)
    IN IF m.ok
       THEN [ok |-> TRUE,
             val |-> m.caps.hours * 3600 + m.caps.minutes * 60 + m.caps.seconds]
       ELSE [ok |-> FALSE, err |-> s]

num_days(dur) == dur \div SECS_PER_DAY

-----------------------------------------------------------------------------
(* types: Stop *)

\* NaiveDateTime + Duration
AddDuration(dt, dur) ==
    [date |-> dt.date + ((dt.secs + dur) \div SECS_PER_DAY),
     secs |-> (dt.secs + dur) % SECS_PER_DAY]

DtLess(a, b) == a.date < b.date \/ (a.date = b.date /\ a.secs < b.secs)

Offset(s, board_type) ==
    IF board_type = "Arrival" THEN s.arrival_time ELSE s.departure_time

service_day_of(s, board_type, date_time) ==
    date_time.date - num_days(Offset(s, board_type))

get_adjusted_dt(s, board_type, date_time) ==
    AddDuration([date |-> service_day_of(s, board_type, date_time), secs |-> 0],
                Offset(s, board_type))

is_after_adjusted_time(s, board_type, date_time) ==
    ~DtLess(get_adjusted_dt(s, board_type, date_time), date_time)

-----------------------------------------------------------------------------
(* GTFSDatabase::map_stop *)

map_stop(row) ==
    LET a == str_to_dur(row.arrival_time)
        d == str_to_dur(row.departure_time)
    IN IF ~a.ok THEN [ok |-> FALSE, err |-> a.err]
       ELSE IF ~d.ok THEN [ok |-> FALSE, err |-> d.err]
       ELSE [ok |-> TRUE,
             stop |-> [arrival_time |-> a.val, departure_time |-> d.val,
                       trip_id |-> row.trip_id, short_name |-> row.short_name,
                       service_id |-> row.service_id, head_sign |-> row.head_sign]]

-----------------------------------------------------------------------------
(* STOP_QUERY (WHERE st.stop_id LIKE 'stop_id%') and TRIP_QUERY (WHERE      *)
(* st.trip_id = ?1 ORDER BY st.stop_sequence).  The rows are read when the *)
(* query runs, the index when the database was constructed.                *)

IsPrefix(p, s) == Len(p) <= Len(s) /\ SubSeq(s, 1, Len(p)) = p

StopQueryRow(r) ==
    [arrival_time |-> r.arrival_time, departure_time |-> r.departure_time,
     trip_id |-> r.trip_id, service_id |-> r.service_id,
     short_name |-> r.short_name, head_sign |-> r.headsign]

TripQueryRow(r) ==
    [arrival_time |-> r.arrival_time, departure_time |-> r.departure_time,
     trip_id |-> r.trip_id, service_id |-> 0,
     short_name |-> "", head_sign |-> r.stop_name]

RECURSIVE StopQuery(_, _)
StopQuery(table, pattern) ==
    IF table = <<>> THEN <<>>
    ELSE (IF IsPrefix(pattern, Head(table).stop_id)
          THEN <<StopQueryRow(Head(table))>> ELSE <<>>)
            \o StopQuery(Tail(table), pattern)

RECURSIVE InsertBySequence(_, _)
InsertBySequence(sorted, r) ==
    IF sorted = <<>> THEN <<r>>
    ELSE IF r.stop_sequence < Head(sorted).stop_sequence THEN <<r>> \o sorted
    ELSE <<Head(sorted)>> \o InsertBySequence(Tail(sorted), r)

RECURSIVE OrderBySequence(_, _)
OrderBySequence(table, sorted) ==
    IF table = <<>> THEN sorted
    ELSE OrderBySequence(Tail(table), InsertBySequence(sorted, Head(table)))

TripQuery(table, trip_id) ==
    LET matched == SelectSeq(table, LAMBDA r : r.trip_id = trip_id)
        ordered == OrderBySequence(matched, <<>>)
    IN [i \in 1..Len(ordered) |-> TripQueryRow(ordered[i])]

-----------------------------------------------------------------------------
(* GTFSDatabase::fetch_stops *)

\* F0: Remove unavailable service
F0(svcs, s, date_time) ==
    is_available(svcs[s.service_id], date_time.date - num_days(s.arrival_time))

\* variant: an event at the reference moment itself is dropped
F1_Strict(s, board_type, date_time) ==
    DtLess(date_time, get_adjusted_dt(s, board_type, date_time))

\* F1: Apply time filter
F1(s, board_type, date_time) == is_after_adjusted_time(s, board_type, date_time)

\* variant: an element goes before its equals (not stable)
RECURSIVE SortedInsert_BeforeEquals(_, _, _, _)
SortedInsert_BeforeEquals(sorted, s, board_type, date_time) ==
    IF sorted = <<>> THEN <<s>>
    ELSE IF ~DtLess(get_adjusted_dt(Head(sorted), board_type, date_time),
                    get_adjusted_dt(s, board_type, date_time))
         THEN <<s>> \o sorted
         ELSE <<Head(sorted)>>
                \o SortedInsert_BeforeEquals(Tail(sorted), s, board_type, date_time)

\* stops.sort_by(adjusted_dt): stable, an element goes after its equals
RECURSIVE SortedInsert(_, _, _, _)
SortedInsert(sorted, s, board_type, date_time) ==
    IF sorted = <<>> THEN <<s>>
    ELSE IF DtLess(get_adjusted_dt(s, board_type, date_time),
                   get_adjusted_dt(Head(sorted), board_type, date_time))
         THEN <<s>> \o sorted
         ELSE <<Head(sorted)>> \o SortedInsert(Tail(sorted), s, board_type, date_time)

RECURSIVE SortFrom(_, _, _, _)
SortFrom(stops, sorted, board_type, date_time) ==
    IF stops = <<>> THEN sorted
    ELSE SortFrom(Tail(stops), SortedInsert(sorted, Head(stops), board_type, date_time),
                  board_type, date_time)

sort_by(stops, board_type, date_time) == SortFrom(stops, <<>>, board_type, date_time)

\* the iterator chain map(unwrap).filter(F0).filter(F1).collect(), row by row
RECURSIVE Collect(_, _, _, _, _, _)
Collect(svcs, rows, board_type, date_time, kept, lookups) ==
    IF rows = <<>> THEN [outcome |-> "ok", kept |-> kept, lookups |-> lookups]
    ELSE LET m == map_stop(Head(rows))
         IN IF ~m.ok
            THEN [outcome |-> "panic", error |-> "unwrap on a time parse error",
                  lookups |-> lookups]
            ELSE IF m.stop.service_id \notin DOMAIN svcs
            THEN [outcome |-> "panic", error |-> "unwrap on a missing service",
                  lookups |-> lookups + 1]
            ELSE Collect(svcs, Tail(rows), board_type, date_time,
                         IF F0(svcs, m.stop, date_time) /\ F1(m.stop, board_type, date_time)
                         THEN Append(kept, m.stop) ELSE kept,
                         lookups + 1)

\* the else branch of fetch_stops.  prepared: statements prepared;
\* rows: the rows the query yielded; lookups: calls of services.get
QueryStops(svcs, stop_id, board_type, date_time, table, prepare_ok) ==
    IF ~prepare_ok
    THEN [outcome |-> "err", value |-> <<>>, error |-> "rusqlite error",
          prepared |-> 0, rows |-> <<>>, lookups |-> 0]
    ELSE LET rows == StopQuery(table, stop_id)
             c == Collect(svcs, rows, board_type, date_time, <<>>, 0)
         IN IF c.outcome = "ok"
            THEN [outcome |-> "ok", value |-> sort_by(c.kept, board_type, date_time),
                  error |-> "", prepared |-> 1, rows |-> rows, lookups |-> c.lookups]
            ELSE [outcome |-> "panic", value |-> <<>>, error |-> c.error,
                  prepared |-> 1, rows |-> rows, lookups |-> c.lookups]

\* variant: the empty stop identifier is queried like any other
fetch_stops_NoShortCircuit(svcs, stop_id, board_type, date_time, table, prepare_ok) ==
    QueryStops(svcs, stop_id, board_type, date_time, table, prepare_ok)

fetch_stops(svcs, stop_id, board_type, date_time, table, prepare_ok) ==
    IF stop_id = <<>>
    THEN [outcome |-> "ok", value |-> <<>>, error |-> "", prepared |-> 0,
          rows |-> <<>>, lookups |-> 0]
    ELSE QueryStops(svcs, stop_id, board_type, date_time, table, prepare_ok)

-----------------------------------------------------------------------------
(* GTFSDatabase::fetch_trip *)

RECURSIVE MapStops(_, _)
MapStops(rows, acc) ==
    IF rows = <<>> THEN [outcome |-> "ok", value |-> acc]
    ELSE LET m == map_stop(Head(rows))
         IN IF ~m.ok THEN [outcome |-> "panic", value |-> <<>>]
            ELSE MapStops(Tail(rows), Append(acc, m.stop))

fetch_trip(trip_id, table, prepare_ok) ==
    IF ~prepare_ok
    THEN [outcome |-> "err", value |-> <<>>, error |-> "rusqlite error", rows |-> <<>>]
    ELSE LET rows == TripQuery(table, trip_id)
             r == MapStops(rows, <<>>)
         IN [outcome |-> r.outcome, value |-> r.value, rows |-> rows,
             error |-> IF r.outcome = "ok" THEN "" ELSE "unwrap on a time parse error"]

-----------------------------------------------------------------------------
(* get_station_query and GTFSDatabase::fetch_stations *)

get_station_query(input) ==
    IF input = "" THEN <<"%Hbf", "%Hauptbahnhof">> ELSE <<"%", input, "%">>

fetch_stations(input, rows, prepare_ok) ==
    IF ~prepare_ok
    THEN [outcome |-> "err", value |-> <<>>, query |-> get_station_query(input)]
    ELSE [outcome |-> "ok",
          value |-> [i \in 1..Len(rows) |-> [stop_id |-> rows[i][1], name |-> rows[i][2]]],
          query |-> get_station_query(input)]

-----------------------------------------------------------------------------
(* GTFSDatabase::new *)

new(cal, open_ok) ==
    IF ~open_ok THEN [ok |-> FALSE, err |-> <<"o", "p", "e", "n">>]
    ELSE fetch_services(ServiceQuery(cal.service, cal.exception))

-----------------------------------------------------------------------------
(* Inputs *)

SeqsUpTo(S, n) == UNION {[1..k -> S] : k \in 0..n}

d20240608 == <<"2", "0", "2", "4", "0", "6", "0", "8">>   \* Saturday
d20240609 == <<"2", "0", "2", "4", "0", "6", "0", "9">>   \* Sunday
d20240610 == <<"2", "0", "2", "4", "0", "6", "1", "0">>   \* Monday
d20240614 == <<"2", "0", "2", "4", "0", "6", "1", "4">>   \* Friday
d20240615 == <<"2", "0", "2", "4", "0", "6", "1", "5">>   \* Saturday
d20240616 == <<"2", "0", "2", "4", "0", "6", "1", "6">>   \* Sunday
dBadMonth == <<"2", "0", "2", "4", "1", "3", "0", "1">>
dBadText  == <<"2", "0", "2", "4", "-", "0", "6">>

MonFri == <<TRUE, TRUE, TRUE, TRUE, TRUE, FALSE, FALSE>>
Daily  == <<TRUE, TRUE, TRUE, TRUE, TRUE, TRUE, TRUE>>

ServiceRow(id, flags, start, end) ==
    [service_id |-> id, flags |-> flags, start_date |-> start, end_date |-> end]

ExceptionRow(id, date, type) ==
    [service_id |-> id, service_date |-> date, exception_type |-> type]

ServiceRowSet ==
    { ServiceRow(1, MonFri, d20240610, d20240614),
      ServiceRow(1, MonFri, dBadText, d20240614),
      ServiceRow(2, Daily, d20240609, d20240615),
      ServiceRow(2, Daily, d20240609, dBadMonth),
      ServiceRow(3, MonFri, d20240608, d20240616) }

ExceptionRowSet ==
    { ExceptionRow(1, d20240615, 1),
      ExceptionRow(1, d20240615, 2),
      ExceptionRow(1, d20240610, 2),
      ExceptionRow(2, d20240616, 1),
      ExceptionRow(2, dBadMonth, 1) }

DistinctIds(t) == \A i, j \in 1..Len(t) : t[i].service_id = t[j].service_id => i = j

\* the service table has one row per service_id
IndexCalendars ==
    { [service |-> st, exception |-> et] :
        st \in {t \in SeqsUpTo(ServiceRowSet, MaxServices) : DistinctIds(t)},
        et \in SeqsUpTo(ExceptionRowSet, MaxExceptions) }

BoardCalendars ==
    { [service |-> <<ServiceRow(1, MonFri, d20240610, d20240614),
                     ServiceRow(2, Daily, d20240609, d20240615)>>,
       exception |-> et] :
        et \in { <<>>,
                 <<ExceptionRow(1, d20240609, 1)>>,
                 <<ExceptionRow(2, d20240610, 2), ExceptionRow(1, d20240615, 1)>> } }

ProbeDates ==
    { NumDaysFromCE(2024, 6, 8), NumDaysFromCE(2024, 6, 10), NumDaysFromCE(2024, 6, 15),
      NumDaysFromCE(2024, 6, 16), NumDaysFromCE(2024, 6, 17) }

t070000 == <<"0", "7", ":", "0", "0", ":", "0", "0">>
t080000 == <<"0", "8", ":", "0", "0", ":", "0", "0">>
t091500 == <<"0", "9", ":", "1", "5", ":", "0", "0">>
t91500  == <<"9", ":", "1", "5", ":", "0", "0">>
t235000 == <<"2", "3", ":", "5", "0", ":", "0", "0">>
t241000 == <<"2", "4", ":", "1", "0", ":", "0", "0">>
t253000 == <<"2", "5", ":", "3", "0", ":", "0", "0">>
tBad    == <<"0", "9", ":", "1", "5">>

stop80 == <<"8", "0", "0", "0", "1", "0", "5">>
stop90 == <<"9", "0", "0", "1">>

StopTimeRow(stop, name, seq, arr, dep, trip, service, short, head) ==
    [stop_id |-> stop, stop_name |-> name, stop_sequence |-> seq,
     arrival_time |-> arr, departure_time |-> dep, trip_id |-> trip,
     service_id |-> service, short_name |-> short, headsign |-> head]

StopTimeRowSet ==
    { StopTimeRow(stop80, "Koeln Hbf", 1, t070000, t070000, 10, 1, "RE 1", "Aachen"),
      StopTimeRow(stop80, "Koeln Hbf", 2, t091500, t091500, 11, 1, "RE 2", "Bonn"),
      StopTimeRow(stop80, "Koeln Hbf", 1, t91500, t091500, 12, 2, "S 3", "Celle"),
      StopTimeRow(stop80, "Koeln Hbf", 4, t080000, t080000, 13, 1, "RE 4", "Daun"),
      StopTimeRow(stop80, "Koeln Hbf", 2, t235000, t241000, 14, 1, "IC 5", "Essen"),
      StopTimeRow(stop80, "Koeln Hbf", 5, t253000, t253000, 15, 2, "S 6", "Fulda"),
      StopTimeRow(stop80, "Koeln Hbf", 1, t091500, t091500, 16, 3, "RB 7", "Gera"),
      StopTimeRow(stop80, "Koeln Hbf", 3, t091500, tBad, 14, 1, "IC 5", "Essen"),
      StopTimeRow(stop90, "Deutz", 1, t070000, t070000, 14, 1, "IC 5", "Essen") }

StopIds == {<<>>, <<"8", "0">>}
TripIds == {14}
BoardTypes == {"Arrival", "Departure"}

DateTimes ==
    { [date |-> NumDaysFromCE(2024, 6, 10), secs |-> 0],
      [date |-> NumDaysFromCE(2024, 6, 10), secs |-> 8 * 3600],
      [date |-> NumDaysFromCE(2024, 6, 15), secs |-> 600] }

StationInputs == {"", "Koeln"}
StationRowSet == { <<"8000105", "Frankfurt Hbf">>, <<"8000207", "Koeln Hbf">> }

-----------------------------------------------------------------------------
(* State machine *)

Start ==
    /\ phase = "start"
    /\ services = NoServices
    /\ last = [op |-> "none"]

Init ==
    /\ calendar \in BoardCalendars
    /\ stop_time \in SeqsUpTo(StopTimeRowSet, MaxStopRows)
    /\ Start

InitIndex ==
    /\ calendar \in IndexCalendars
    /\ stop_time = <<>>
    /\ Start

New(open_ok) ==
    /\ phase = "start"
    /\ LET r == new(calendar, open_ok)
       IN /\ phase' = IF r.ok THEN "ready" ELSE "failed"
          /\ services' = IF r.ok THEN r.map ELSE NoServices
          /\ last' = [op |-> "new", ok |-> r.ok,
                      error |-> IF r.ok THEN <<>> ELSE r.err]
    /\ UNCHANGED <<calendar, stop_time>>

FetchStations(input, rows, prepare_ok) ==
    /\ phase = "ready"
    /\ last' = [op |-> "fetch_stations", input |-> input,
                result |-> fetch_stations(input, rows, prepare_ok)]
    /\ UNCHANGED <<calendar, stop_time, phase, services>>

\* variant: a lookup of a missing service_id inserts an empty Service
FetchStops_InsertMissing(stop_id, board_type, date_time, prepare_ok) ==
    /\ phase = "ready"
    /\ LET r == fetch_stops(services, stop_id, board_type, date_time, stop_time,
                            prepare_ok)
           ids == {r.rows[i].service_id : i \in 1..Len(r.rows)}
       IN /\ last' = [op |-> "fetch_stops", stop_id |-> stop_id,
                      board_type |-> board_type, date_time |-> date_time,
                      result |-> r]
          /\ phase' = IF r.outcome = "panic" THEN "panicked" ELSE "ready"
          /\ services' = [id \in (DOMAIN services) \cup ids |->
                            IF id \in DOMAIN services THEN services[id]
                            ELSE ServiceNew(0, 0, from_rows(FALSE, FALSE, FALSE, FALSE,
                                                            FALSE, FALSE, FALSE))]
    /\ UNCHANGED <<calendar, stop_time>>

FetchStops(stop_id, board_type, date_time, prepare_ok) ==
    /\ phase = "ready"
    /\ LET r == fetch_stops(services, stop_id, board_type, date_time, stop_time,
                            prepare_ok)
       IN /\ last' = [op |-> "fetch_stops", stop_id |-> stop_id,
                      board_type |-> board_type, date_time |-> date_time,
                      result |-> r]
          /\ phase' = IF r.outcome = "panic" THEN "panicked" ELSE "ready"
    /\ UNCHANGED <<calendar, stop_time, services>>

FetchTrip(trip_id, prepare_ok) ==
    /\ phase = "ready"
    /\ LET r == fetch_trip(trip_id, stop_time, prepare_ok)
       IN /\ last' = [op |-> "fetch_trip", trip_id |-> trip_id, result |-> r]
          /\ phase' = IF r.outcome = "panic" THEN "panicked" ELSE "ready"
    /\ UNCHANGED <<calendar, stop_time, services>>

IsAvailable(service_id, date) ==
    /\ phase = "ready"
    /\ service_id \in DOMAIN services
    /\ last' = [op |-> "is_available", service_id |-> service_id, date |-> date,
                result |-> is_available(services[service_id], date)]
    /\ UNCHANGED <<calendar, stop_time, phase, services>>

Next ==
    \/ \E open_ok \in BOOLEAN : New(open_ok)
    \/ \E input \in StationInputs, rows \in SeqsUpTo(StationRowSet, 1),
          prepare_ok \in BOOLEAN :
            FetchStations(input, rows, prepare_ok)
    \/ \E stop_id \in StopIds, board_type \in BoardTypes, date_time \in DateTimes,
          prepare_ok \in BOOLEAN :
            FetchStops(stop_id, board_type, date_time, prepare_ok)
    \/ \E trip_id \in TripIds, prepare_ok \in BOOLEAN :
            FetchTrip(trip_id, prepare_ok)

NextIndex ==
    \/ \E open_ok \in BOOLEAN : New(open_ok)
    \/ \E service_id \in 1..3, date \in ProbeDates : IsAvailable(service_id, date)

Spec == Init /\ [][Next]_vars

SpecIndex == InitIndex /\ [][NextIndex]_vars

-----------------------------------------------------------------------------
(* Notions the properties share *)

Range(seq) == {seq[i] : i \in 1..Len(seq)}

\* the last call was a fetch_stops that returned Ok after running its query
BoardReturned ==
    /\ last.op = "fetch_stops"
    /\ last.result.outcome = "ok"
    /\ last.result.prepared = 1

\* the stop-events of the rows the last query yielded, in row order
LastStops == [i \in 1..Len(last.result.rows) |-> map_stop(last.result.rows[i]).stop]

Adjusted(s) == get_adjusted_dt(s, last.board_type, last.date_time)

ServiceDay(s) == service_day_of(s, last.board_type, last.date_time)

BeforeReference(s) == DtLess(Adjusted(s), last.date_time)

CalendarRows == ServiceQuery(calendar.service, calendar.exception)

MalformedTime(row) ==
    ~str_to_dur(row.arrival_time).ok \/ ~str_to_dur(row.departure_time).ok

MalformedDate(row) ==
    \/ ~str_to_date(row.start_date).ok
    \/ ~str_to_date(row.end_date).ok
    \/ (~row.service_date.null /\ ~str_to_date(row.service_date.text).ok)

ExceptionsOn(s, date) ==
    {i \in 1..Len(s.exceptions) : s.exceptions[i].exception_date = date}

WeeklyRule(s, date) ==
    /\ s.start_date <= date
    /\ date <= s.end_date
    /\ s.operating_weekdays[weekday(date) + 1]

-----------------------------------------------------------------------------
(* C1: every stop-event fetch_stops returns has a Service available on the *)
(* event's service-day, date(reference) - floor(offset / 24h) with the     *)
(* offset the board type selects, and an event whose Service is available  *)
(* on that day is not dropped by the availability filter.                  *)

C1_AvailableOnServiceDay ==
    BoardReturned =>
        /\ \A e \in Range(last.result.value) :
              is_available(services[e.service_id], ServiceDay(e))
        /\ \A e \in Range(LastStops) :
              (is_available(services[e.service_id], ServiceDay(e)) /\ ~BeforeReference(e))
                  => e \in Range(last.result.value)

-----------------------------------------------------------------------------
(* C2: every stop-event fetch_stops returns has an adjusted timestamp at   *)
(* or after the reference; an event that passed the availability filter is *)
(* dropped exactly when its adjusted timestamp is strictly before the      *)
(* reference, so an event at the reference moment is kept.                 *)

C2_Horizon ==
    BoardReturned =>
        /\ \A e \in Range(last.result.value) : ~BeforeReference(e)
        /\ \A e \in Range(LastStops) :
              F0(services, e, last.date_time)
                  => (e \in Range(last.result.value) <=> ~BeforeReference(e))

C2_Witness ==
    /\ BoardReturned
    /\ \E e \in Range(last.result.value) : Adjusted(e) = last.date_time
    /\ \E e \in Range(LastStops) :
          /\ F0(services, e, last.date_time)
          /\ BeforeReference(e)
          /\ e \notin Range(last.result.value)

-----------------------------------------------------------------------------
(* C3: the sequence fetch_stops returns is sorted non-decreasing by        *)
(* adjusted timestamp, it holds exactly the events both filters retained,  *)
(* and the events of one adjusted timestamp keep the order of the rows.    *)

Retained ==
    SelectSeq(LastStops,
              LAMBDA e : F0(services, e, last.date_time)
                           /\ F1(e, last.board_type, last.date_time))

C3_SortedStable ==
    BoardReturned =>
        LET value == last.result.value
        IN /\ \A i, j \in 1..Len(value) :
                 i < j => ~DtLess(Adjusted(value[j]), Adjusted(value[i]))
           /\ Len(value) = Len(Retained)
           /\ \A e \in Range(Retained) :
                 SelectSeq(value, LAMBDA x : Adjusted(x) = Adjusted(e))
                   = SelectSeq(Retained, LAMBDA x : Adjusted(x) = Adjusted(e))

C3_Witness ==
    /\ BoardReturned
    /\ Len(last.result.value) = 2
    /\ last.result.value[1] # last.result.value[2]
    /\ Adjusted(last.result.value[1]) = Adjusted(last.result.value[2])

-----------------------------------------------------------------------------
(* C4: is_available(d) follows the two-tier rule.  As claimed: when d is   *)
(* the date of an exception e, the result is (e.exception_type = Added)    *)
(* whatever the validity window, else the weekly rule inside the window.   *)

C4_TwoTierOriginal ==
    last.op = "is_available" =>
        LET s == services[last.service_id]
        IN IF ExceptionsOn(s, last.date) # {}
           THEN \A i \in ExceptionsOn(s, last.date) :
                   last.result = (s.exceptions[i].exception_type = "Added")
           ELSE last.result = WeeklyRule(s, last.date)

(* C4 as amended: when the exceptions of s dated d all carry one type, the *)
(* result is (that type = Added) whatever the validity window; when no     *)
(* exception is dated d, the result is the weekly rule inside the window.  *)

C4_TwoTier ==
    last.op = "is_available" =>
        LET s == services[last.service_id]
            on == ExceptionsOn(s, last.date)
            types == {s.exceptions[i].exception_type : i \in on}
        IN /\ Cardinality(types) = 1 => last.result = (types = {"Added"})
           /\ on = {} => last.result = WeeklyRule(s, last.date)

C4_Witness ==
    /\ last.op = "is_available"
    /\ ExceptionsOn(services[last.service_id], last.date) # {}
    /\ last.date > services[last.service_id].end_date
    /\ last.result = TRUE

-----------------------------------------------------------------------------
(* C5: when a row fetch_stops fetched references a service_id absent from  *)
(* the index, the call returns a LookupError as an error result.           *)

C5_LookupError ==
    (/\ last.op = "fetch_stops"
     /\ \E row \in Range(last.result.rows) : row.service_id \notin DOMAIN services)
        => /\ last.result.outcome = "err"
           /\ last.result.error = "LookupError"

-----------------------------------------------------------------------------
(* C6: when a start_date, end_date or exception date string of the         *)
(* calendar rows does not parse, GTFSDatabase::new fails: there is no      *)
(* index and no query is ever served.                                      *)

C6_MalformedDateAbortsStartup ==
    (phase # "start" /\ \E row \in Range(CalendarRows) : MalformedDate(row))
        => /\ phase = "failed"
           /\ services = NoServices
           /\ last.op = "new"
           /\ ~last.ok

C6_Witness ==
    /\ phase = "failed"
    /\ last.op = "new"
    /\ \E row \in Range(CalendarRows) :
          /\ str_to_date(row.start_date).ok
          /\ str_to_date(row.end_date).ok
          /\ ~row.service_date.null
          /\ last.error = row.service_date.text

-----------------------------------------------------------------------------
(* C7: fetch_stops with an empty stop identifier returns an empty Ok       *)
(* without preparing or running a query and without a lookup in the index. *)

C7_EmptyStopId ==
    (last.op = "fetch_stops" /\ last.stop_id = <<>>)
        => /\ last.result.outcome = "ok"
           /\ last.result.value = <<>>
           /\ last.result.prepared = 0
           /\ last.result.rows = <<>>
           /\ last.result.lookups = 0

C7_Witness ==
    /\ last.op = "fetch_stops"
    /\ last.stop_id = <<>>
    /\ stop_time # <<>>
    /\ last.result.outcome = "ok"

-----------------------------------------------------------------------------
(* C8: the index changes only in GTFSDatabase::new; no fetch_stations,     *)
(* fetch_stops or fetch_trip call, returning or failing, changes it.       *)

C8_IndexImmutable ==
    [][(services' # services) => (phase = "start" /\ last'.op = "new")]_vars

C8_Witness ==
    /\ last.op = "fetch_stops"
    /\ last.result.outcome = "panic"
    /\ services # NoServices
    /\ services = fetch_services(CalendarRows).map

-----------------------------------------------------------------------------
(* C9: fetch_services yields one Service per service_id of the rows, with  *)
(* the base fields of the first row of that id and, as exceptions, the     *)
(* exceptions of the rows of that id in row order, duplicates included.    *)

RowsOf(service_id) ==
    SelectSeq(CalendarRows, LAMBDA r : r.service_id = service_id)

ExceptionRowsOf(service_id) ==
    SelectSeq(RowsOf(service_id), LAMBDA r : ~r.service_date.null)

C9_OneServicePerId ==
    phase = "ready" =>
        /\ DOMAIN services = {r.service_id : r \in Range(CalendarRows)}
        /\ \A id \in DOMAIN services :
              LET first == RowsOf(id)[1]
                  excs == ExceptionRowsOf(id)
              IN /\ services[id].start_date = str_to_date(first.start_date).val
                 /\ services[id].end_date = str_to_date(first.end_date).val
                 /\ services[id].operating_weekdays = first.flags
                 /\ services[id].exceptions =
                       [i \in 1..Len(excs) |->
                           [exception_date |-> str_to_date(excs[i].service_date.text).val,
                            exception_type |->
                               ExceptionTypeFromSql(excs[i].exception_type)]]

C9_Witness ==
    /\ phase = "ready"
    /\ \E id \in DOMAIN services : services[id].exceptions = <<>>
    /\ \E id \in DOMAIN services :
          /\ Len(services[id].exceptions) = 2
          /\ services[id].exceptions[1].exception_date
                = services[id].exceptions[2].exception_date

-----------------------------------------------------------------------------
(* C10: when the arrival_time or departure_time of a row a fetch_stops or  *)
(* fetch_trip query matched is malformed, the call returns a ParseError as *)
(* an error result and the database stays usable.                          *)

C10_ParseErrorReturned ==
    (/\ last.op \in {"fetch_stops", "fetch_trip"}
     /\ \E row \in Range(last.result.rows) : MalformedTime(row))
        => /\ last.result.outcome = "err"
           /\ last.result.error = "ParseError"
           /\ phase = "ready"

====
